---------------------------- MODULE Spec2Model ----------------------------
(***************************************************************************)
(* A model of life_expectancy.ipynb: the DataPreprocessor imputer (fit,    *)
(* transform, fit_transform), add_features, and the notebook's preparation *)
(* cell that runs them on the three partitions.                            *)
(*                                                                         *)
(* A dataset (pandas DataFrame) is a sequence of rows; a row is a function *)
(* from column names to cells.  A numeric cell is a pair <<n, d>>: the     *)
(* rational n/d in lowest terms (d > 0), NaN == <<0, 0>>, and              *)
(* Inf == <<1, 0>>.  Floating-point rounding is not modelled: arithmetic   *)
(* is exact.  The model's numbers are non-negative, as the dataset's are.  *)
(* Country and Status cells are strings; an encoded Status is "0" or "1",  *)
(* and a missing Status is "NaN".                                          *)
(***************************************************************************)
EXTENDS Integers, Sequences, FiniteSets, TLC

VARIABLES
    means_by_country,   \* self.means_by_country: column -> (Country -> mean)
    global_medians,     \* self.global_medians:   column -> median
    fits,               \* history: the datasets passed to fit, oldest first
    data,               \* the dataset last passed to transform / add_features
    out,                \* the dataset that call returned (<<>> if it raised)
    raised,             \* "" or the exception the last call ended in
    op,                 \* the last call made
    pc,                 \* the notebook run: its position
    X,                  \* train_data without the target column
    test_data,          \* the test set as loaded
    split,              \* <<ind_train, ind_test>>: the row numbers of X drawn
    X_train, X_val, X_test,   \* the notebook's three partitions
    scaler              \* StandardScaler: "" or "fitted"

imputer == <<means_by_country, global_medians>>
session == <<fits, data, out, raised, op>>
notebook == <<pc, X, test_data, split, X_train, X_val, X_test, scaler>>
vars == <<imputer, session, notebook>>

---------------------------------------------------------------------------
(* Bounds of the model. *)

\* rows of a dataset passed to fit or fit_transform
MaxRows == 3
\* rows of a dataset when fit is called repeatedly
MaxRefitRows == 2
\* calls of fit on one imputer
MaxFits == 2

---------------------------------------------------------------------------
(* Cells and float arithmetic. *)

NaN == <<0, 0>>
Inf == <<1, 0>>
NaNStr == "NaN"

Num(i) == <<i, 1>>

\* the columns whose cells are strings
StrCols == {"Country", "Status"}

\* pd.isna of a cell of column col
isna(col, v) == IF col \in StrCols THEN v = NaNStr ELSE v = NaN

RECURSIVE GCD(_, _)
GCD(a, b) == IF b = 0 THEN a ELSE GCD(b, a % b)

\* n/d in lowest terms, n >= 0, d > 0
Frac(n, d) == LET g == GCD(n, d) IN <<n \div g, d \div g>>

\* a + b of two finite numbers
Add(a, b) == Frac(a[1] * b[2] + b[1] * a[2], a[2] * b[2])

\* a < b of two finite numbers
Less(a, b) == a[1] * b[2] < b[1] * a[2]

\* numpy float division a / b: NaN propagates, x/0 is inf, 0/0 is NaN
Div(a, b) ==
    IF a = NaN \/ b = NaN THEN NaN
    ELSE IF b[1] = 0 /\ b[2] # 0 THEN (IF a[1] = 0 THEN NaN ELSE Inf)
    ELSE IF a = Inf THEN Inf
    ELSE IF b = Inf THEN Num(0)
    ELSE Frac(a[1] * b[2], a[2] * b[1])

---------------------------------------------------------------------------
(* Series reductions (pandas skips NaN; an all-NaN series reduces to NaN). *)

\* the non-missing values of a sequence of numeric cells, in order
dropna(s) == SelectSeq(s, LAMBDA v : v # NaN)

RECURSIVE Sum(_)
Sum(s) == IF s = <<>> THEN Num(0) ELSE Add(Head(s), Sum(Tail(s)))

\* Series.mean()
mean(s) ==
    LET v == dropna(s)
    IN  IF v = <<>> THEN NaN ELSE Div(Sum(v), Num(Len(v)))

\* the k-th smallest value of a non-empty sequence of finite numbers
Kth(v, k) ==
    CHOOSE x \in {v[i] : i \in DOMAIN v} :
        /\ Cardinality({i \in DOMAIN v : Less(v[i], x)}) < k
        /\ k <= Cardinality({i \in DOMAIN v : ~Less(x, v[i])})

\* Series.median()
median(s) ==
    LET v == dropna(s)
        n == Len(v)
    IN  IF n = 0 THEN NaN
        ELSE IF n % 2 = 1 THEN Kth(v, (n + 1) \div 2)
        ELSE Div(Add(Kth(v, n \div 2), Kth(v, n \div 2 + 1)), Num(2))

---------------------------------------------------------------------------
(* DataFrame helpers. *)

\* data.columns (all rows of a dataset share one schema)
Columns(d) == IF d = <<>> THEN {} ELSE DOMAIN d[1]

\* data[col] as a sequence
Column(d, col) == [i \in DOMAIN d |-> d[i][col]]

\* data.groupby('Country')[col].mean(): one entry per Country of data
groupby_mean(d, col) ==
    [k \in {d[i]["Country"] : i \in DOMAIN d} |->
        mean(Column(SelectSeq(d, LAMBDA r : r["Country"] = k), col))]

\* mutant of cols_with_na: every numeric column, missing values or not
cols_all_numeric(d) == Columns(d) \ StrCols

\* data.columns[data.isna().any()]
cols_with_na(d) ==
    {col \in Columns(d) : \E i \in DOMAIN d : isna(col, d[i][col])}

\* f with key k set to v (a dict assignment)
Put(f, k, v) == [x \in DOMAIN f \cup {k} |-> IF x = k THEN v ELSE f[x]]

\* mutant of get: a key that is not in the index yields NaN (as Series.map
\* or reindex would), the default is not used
get_without_default(series, key, default) ==
    IF key \in DOMAIN series THEN series[key] ELSE NaN

\* Series.get(key, default): the entry if key is in the index, else default
get(series, key, default) ==
    IF key \in DOMAIN series THEN series[key] ELSE default

---------------------------------------------------------------------------
(* class DataPreprocessor.  self is [means_by_country, global_medians].    *)

\* __init__
fresh == [means_by_country |-> <<>>, global_medians |-> <<>>]

\* mutant of fit: the dicts are emptied before they are filled
fit_from_empty(self, d) ==
    LET na == cols_with_na(d)
    IN  [means_by_country |-> [col \in na |-> groupby_mean(d, col)],
         global_medians |-> [col \in na |-> median(Column(d, col))]]

\* fit(self, data): the state it leaves.  Only the entries of the columns
\* with a missing value in data are written; every other entry stays.
fit(self, d) ==
    LET na == cols_with_na(d)
    IN  [means_by_country |->
            [col \in DOMAIN self.means_by_country \cup na |->
                IF col \in na THEN groupby_mean(d, col)
                ELSE self.means_by_country[col]],
         global_medians |->
            [col \in DOMAIN self.global_medians \cup na |->
                IF col \in na THEN median(Column(d, col))
                ELSE self.global_medians[col]]]

\* mutant of fill: the global median for every missing value
fill_with_median(self, row, col) ==
    IF isna(col, row[col]) THEN self.global_medians[col] ELSE row[col]

\* the per-row lambda of transform, for column col
fill(self, row, col) ==
    IF isna(col, row[col])
    THEN get(self.means_by_country[col], row["Country"], self.global_medians[col])
    ELSE row[col]

\* the dict of the Status encoding
StatusMap == [Developing |-> "0", Developed |-> "1"]

\* Series.map(dict): a value that is no key of the dict maps to NaN
map(v, dict) == IF v \in DOMAIN dict THEN dict[v] ELSE NaNStr

\* the column lookups of transform that find no such column
transform_KeyError(self, d) ==
    \/ \E col \in DOMAIN self.means_by_country :
          \/ col \notin Columns(d)
          \/ /\ "Country" \notin Columns(d)
             /\ \E i \in DOMAIN d : isna(col, d[i][col])
    \/ "Status" \notin Columns(d)

\* transform(self, data): what it returns, or the exception it ends in
transform(self, d) ==
    IF transform_KeyError(self, d)
    THEN [raised |-> "KeyError", data |-> <<>>]
    ELSE [raised |-> "",
          data |->
            [i \in DOMAIN d |->
                [col \in DOMAIN d[i] |->
                    IF col = "Status" THEN map(d[i][col], StatusMap)
                    ELSE IF col \in DOMAIN self.means_by_country
                         THEN fill(self, d[i], col)
                    ELSE d[i][col]]]]

\* mutant of fit_transform: the dataset is transformed with the state that
\* fit found, not the state it left
transform_then_fit(self, d) ==
    [self |-> fit(self, d), ret |-> transform(self, d)]

\* fit_transform(self, data): the state it leaves and what it returns
fit_transform(self, d) ==
    LET fitted == fit(self, d)
    IN  [self |-> fitted, ret |-> transform(fitted, d)]

self == [means_by_country |-> means_by_country, global_medians |-> global_medians]

---------------------------------------------------------------------------
(* add_features. *)

\* mutant of replace: nothing is replaced
replace_nothing(series, old, new) == series

\* Series.replace(old, new)
replace(series, old, new) ==
    [i \in DOMAIN series |-> IF series[i] = old THEN new ELSE series[i]]

\* a / b of two series of one index
series_div(a, b) == [i \in DOMAIN a |-> Div(a[i], b[i])]

\* df[col] = series
assign(df, col, series) == [i \in DOMAIN df |-> Put(df[i], col, series[i])]

\* the columns add_features reads
Operands ==
    {"GDP", "Population", "under-five deaths", "infant deaths", "Total expenditure"}

\* add_features(df): what it returns, or the exception it ends in
add_features(df) ==
    IF ~(Operands \subseteq Columns(df))
    THEN [raised |-> "KeyError", data |-> <<>>]
    ELSE
      LET df1 == assign(df, "GDP_per_capita",
                     series_div(Column(df, "GDP"),
                                replace(Column(df, "Population"), Num(0), NaN)))
          df2 == assign(df1, "Child_mortality_ratio",
                     series_div(Column(df1, "under-five deaths"),
                                replace(Column(df1, "infant deaths"), Num(0), NaN)))
          df3 == assign(df2, "Health_expenditure_per_GDP",
                     series_div(Column(df2, "Total expenditure"),
                                replace(Column(df2, "GDP"), Num(0), NaN)))
      IN  [raised |-> "", data |-> df3]

---------------------------------------------------------------------------
(* Inputs. *)

Countries == {"A", "B"}
GDPVals == {NaN, Num(0), Num(2)}
PopulationVals == {NaN, Num(1)}
\* Status as loaded (TransformAgain passes an encoded Status: "0", "1", "NaN")
RawStatus == {"Developing", "Developed"}
StatusVals == RawStatus \cup {"Other"}

Row(k, s, g, p) == [Country |-> k, Status |-> s, GDP |-> g, Population |-> p]

\* the datasets of 1..n rows drawn from rows
Datasets(rows, n) == UNION {[1..m -> rows] : m \in 1..n}

\* rows passed to fit: Status is never missing there, and fit reads it
\* only through isna
FitRows == {Row(k, "Developing", g, p) :
                k \in Countries, g \in GDPVals, p \in PopulationVals}
FitData == Datasets(FitRows, MaxRows)

\* datasets passed to transform: one row (transform works row by row), of
\* the full schema or lacking the Population column
TransformRows ==
    {Row(k, s, g, p) : k \in Countries, s \in StatusVals,
                       g \in {NaN, Num(2)}, p \in PopulationVals}
    \cup {[Country |-> k, Status |-> "Developing", GDP |-> g] :
             k \in Countries, g \in {NaN, Num(2)}}
TransformData == {<<r>> : r \in TransformRows}

---------------------------------------------------------------------------
(* Specification Spec: one imputer, fit once (by fit or fit_transform),    *)
(* then transforms of any dataset, and of a dataset transformed before.    *)

NotebookIdle ==
    /\ pc = "-" /\ X = <<>> /\ test_data = <<>> /\ split = <<<<>>, <<>>>>
    /\ X_train = <<>> /\ X_val = <<>> /\ X_test = <<>> /\ scaler = ""

Init ==
    /\ means_by_country = <<>> /\ global_medians = <<>>
    /\ fits = <<>> /\ data = <<>> /\ out = <<>> /\ raised = "" /\ op = "__init__"
    /\ NotebookIdle

SetSelf(s) ==
    /\ means_by_country' = s.means_by_country
    /\ global_medians' = s.global_medians

Fit(d) ==
    /\ SetSelf(fit(self, d))
    /\ fits' = Append(fits, d)
    /\ op' = "fit"
    /\ UNCHANGED <<data, out, raised, notebook>>

FitTransform(d) ==
    LET r == fit_transform(self, d)
    IN  /\ SetSelf(r.self)
        /\ fits' = Append(fits, d)
        /\ op' = "fit_transform"
        /\ data' = d /\ out' = r.ret.data /\ raised' = r.ret.raised
        /\ UNCHANGED notebook

Transform(d) ==
    LET r == transform(self, d)
    IN  /\ op' = "transform"
        /\ data' = d /\ out' = r.data /\ raised' = r.raised
        /\ UNCHANGED <<imputer, fits, notebook>>

FitOnce == fits = <<>> /\ op # "transform" /\ \E d \in FitData : Fit(d)
FitTransformOnce ==
    fits = <<>> /\ op # "transform" /\ \E d \in FitData : FitTransform(d)
\* No call reads what the previous call was given or returned, and
\* transform leaves the imputer as it is: a call that follows a transform
\* does what the same call does without that transform.  Such calls are
\* left out, but for the transform of a returned dataset.
TransformAny == op # "transform" /\ \E d \in TransformData : Transform(d)
\* transform of the dataset the previous transform returned
TransformAgain ==
    /\ op \in {"transform", "fit_transform"} /\ raised = ""
    /\ Transform(out)

Next == FitOnce \/ FitTransformOnce \/ TransformAny \/ TransformAgain

Spec == Init /\ [][Next]_vars

---------------------------------------------------------------------------
(* Reference definitions for the claims: the statistics of a dataset,      *)
(* stated from the dataset and not through the operators above.            *)

\* the row numbers of d whose Country is k and whose col is not missing
Present(d, k, col) ==
    {i \in DOMAIN d : d[i]["Country"] = k /\ d[i][col] # NaN}

RECURSIVE Total(_, _, _)
\* the sum of the numerators of col over the row numbers in rows (the
\* cells of a loaded dataset are whole numbers)
Total(d, col, rows) ==
    IF rows = {} THEN 0
    ELSE LET i == CHOOSE j \in rows : TRUE
         IN  d[i][col][1] + Total(d, col, rows \ {i})

\* v is the mean of col over the rows of Country k in d (NaN if none)
IsCountryMean(v, d, k, col) ==
    LET rows == Present(d, k, col)
    IN  IF rows = {} THEN v = NaN
        ELSE v[2] > 0 /\ v[1] * Cardinality(rows) = v[2] * Total(d, col, rows)

\* v is the median of col over d (NaN if no value): the mid-point of the
\* least value with half of the values at or below it and the greatest
\* value with half of the values at or above it
IsMedian(v, d, col) ==
    LET rows == {i \in DOMAIN d : d[i][col] # NaN}
        n == Cardinality(rows)
        val(i) == d[i][col][1]
        low == {val(i) : i \in {j \in rows :
                    2 * Cardinality({h \in rows : val(h) <= val(j)}) >= n}}
        high == {val(i) : i \in {j \in rows :
                    2 * Cardinality({h \in rows : val(h) >= val(j)}) >= n}}
        lo == CHOOSE x \in low : \A y \in low : x <= y
        hi == CHOOSE x \in high : \A y \in high : x >= y
    IN  IF n = 0 THEN v = NaN
        ELSE v[2] > 0 /\ 2 * v[1] = v[2] * (lo + hi)

\* col has a missing value in d
HasMissing(d, col) == \E i \in DOMAIN d : d[i][col] = NaN

\* the numeric columns of d
NumericColumns(d) == Columns(d) \ StrCols

\* Country k is in d
CountryIn(d, k) == \E i \in DOMAIN d : d[i]["Country"] = k

\* the last call was a transform (alone or in fit_transform) that returned
Returned == op \in {"transform", "fit_transform"} /\ raised = ""

\* the imputer was fit once, on FitOn
FitOnceOn == Len(fits) = 1
FitOn == fits[1]
FittedOn(col) == col \in NumericColumns(FitOn) /\ HasMissing(FitOn, col)

---------------------------------------------------------------------------
(* Claims checked under Spec. *)

\* C2: for every column the imputer was fit on and every row passed to
\* transform: a missing value whose Country was in the fit dataset with a
\* defined mean becomes that mean (the mean of the Country's values of the
\* column in the fit dataset); a value that is not missing stays.
C2_CountryMeanOrUnchanged ==
    (Returned /\ FitOnceOn) =>
        \A i \in DOMAIN data : \A col \in NumericColumns(data) :
            FittedOn(col) =>
                LET k == data[i]["Country"]
                IN  /\ (data[i][col] = NaN /\ Present(FitOn, k, col) # {})
                          => /\ out[i][col] # NaN
                             /\ IsCountryMean(out[i][col], FitOn, k, col)
                    /\ data[i][col] # NaN => out[i][col] = data[i][col]

\* C2 witness: a missing value was replaced by a country mean that differs
\* from the global median, and another value passed through.
C2_Witness ==
    /\ Returned /\ FitOnceOn
    /\ \E i \in DOMAIN data : \E col \in NumericColumns(data) :
          /\ FittedOn(col) /\ data[i][col] = NaN
          /\ Present(FitOn, data[i]["Country"], col) # {}
          /\ out[i][col] # NaN
          /\ ~IsMedian(out[i][col], FitOn, col)
    /\ \E i \in DOMAIN data : \E col \in NumericColumns(data) :
          FittedOn(col) /\ data[i][col] # NaN

\* C3: a row whose Country was not in the fit dataset: transform returns
\* (given a dataset of the fit dataset's columns), and every missing value
\* of the row in a fitted column is the global median of the fit dataset.
C3_UnseenCountryGetsMedian ==
    (op = "transform" /\ FitOnceOn /\ Columns(data) = Columns(FitOn)) =>
        /\ raised = ""
        /\ \A i \in DOMAIN data : \A col \in NumericColumns(data) :
              (/\ FittedOn(col) /\ data[i][col] = NaN
               /\ ~CountryIn(FitOn, data[i]["Country"]))
                 => /\ IsMedian(out[i][col], FitOn, col)
                    /\ out[i][col] = global_medians[col]

\* C3 witness: a missing value of a row of an unseen Country was replaced by
\* a defined global median.
C3_Witness ==
    /\ op = "transform" /\ FitOnceOn /\ raised = ""
    /\ \E i \in DOMAIN data : \E col \in NumericColumns(data) :
          /\ FittedOn(col) /\ data[i][col] = NaN
          /\ ~CountryIn(FitOn, data[i]["Country"])
          /\ out[i][col] # NaN

\* C4 as claimed: a missing value of a Country that was in the fit dataset
\* with only missing values in the column becomes the global median, and
\* no value of a fitted column with a defined global median stays missing.
C4_AllMissingCountryGetsMedian ==
    (Returned /\ FitOnceOn) =>
        \A i \in DOMAIN data : \A col \in NumericColumns(data) :
            (FittedOn(col) /\ data[i][col] = NaN) =>
                /\ (/\ CountryIn(FitOn, data[i]["Country"])
                    /\ Present(FitOn, data[i]["Country"], col) = {})
                      => IsMedian(out[i][col], FitOn, col)
                /\ global_medians[col] # NaN => out[i][col] # NaN

\* C5 as claimed: transform encodes Developing as 0 and Developed as 1, and
\* a Status outside the mapping (an encoded one included) makes it end in
\* an error.
C5_UnknownStatusRaises ==
    (op \in {"transform", "fit_transform"} /\ "Status" \in Columns(data)) =>
        /\ raised = "" =>
              \A i \in DOMAIN data :
                  /\ data[i]["Status"] = "Developing" => out[i]["Status"] = "0"
                  /\ data[i]["Status"] = "Developed" => out[i]["Status"] = "1"
        /\ (\E i \in DOMAIN data :
               data[i]["Status"] \notin {"Developing", "Developed"})
              => raised # ""

\* C7 as claimed: every column with no missing value in the fit dataset,
\* Status included, is returned as it was passed.
C7_UnfittedColumnsUnchanged ==
    (Returned /\ FitOnceOn) =>
        \A col \in Columns(data) :
            (col \in StrCols \/ ~HasMissing(FitOn, col)) =>
                \A i \in DOMAIN data : out[i][col] = data[i][col]

\* C7 amended: every column other than Status with no missing value in the
\* fit dataset is returned as it was passed.
C7_UnfittedColumnsButStatusUnchanged ==
    (Returned /\ FitOnceOn) =>
        \A col \in Columns(data) \ {"Status"} :
            (col \in StrCols \/ ~HasMissing(FitOn, col)) =>
                \A i \in DOMAIN data : out[i][col] = data[i][col]

\* C7 witness: a column with no missing value in the fit dataset had a
\* missing value in the dataset passed to transform, and kept it.
C7_Witness ==
    /\ Returned /\ FitOnceOn
    /\ \E col \in NumericColumns(data) : \E i \in DOMAIN data :
          ~HasMissing(FitOn, col) /\ data[i][col] = NaN /\ out[i][col] = NaN

---------------------------------------------------------------------------
(* Specification SpecRefit: one imputer, fit up to MaxFits times (the      *)
(* first time by fit or fit_transform), and transforms of the datasets it  *)
(* was fit on.                                                             *)

RefitData == Datasets(FitRows, MaxRefitRows)

FitFresh == fits = <<>> /\ op # "transform" /\ \E d \in RefitData : Fit(d)
FitTransformFresh ==
    fits = <<>> /\ op # "transform" /\ \E d \in RefitData : FitTransform(d)
\* (as in TransformAny, the calls that follow a transform are left out)
FitMore ==
    /\ fits # <<>> /\ Len(fits) < MaxFits /\ op # "transform"
    /\ \E d \in RefitData : Fit(d)
TransformFitted ==
    /\ op # "transform"
    /\ \E k \in DOMAIN fits : Transform(fits[k])

NextRefit == FitFresh \/ FitTransformFresh \/ FitMore \/ TransformFitted

SpecRefit == Init /\ [][NextRefit]_vars

\* the last dataset passed to fit in which col had a missing value
LastWithMissing(col) ==
    fits[CHOOSE k \in DOMAIN fits :
            /\ HasMissing(fits[k], col)
            /\ \A h \in DOMAIN fits : HasMissing(fits[h], col) => h <= k]

\* the numeric columns with a missing value in some dataset passed to fit
EverMissing ==
    UNION {{col \in NumericColumns(fits[k]) : HasMissing(fits[k], col)} :
              k \in DOMAIN fits}

\* C9: fit_transform(D) on a fresh imputer leaves the state and returns the
\* dataset that fit(D) followed by transform(D) does; a second fit(D) on
\* the same dataset leaves the state of the first.
C9_FitTransformIsFitThenTransform ==
    /\ op = "fit_transform" =>
          LET fitted == fit(fresh, fits[1])
              ret == transform(fitted, fits[1])
          IN  /\ Len(fits) = 1
              /\ self = fitted
              /\ raised = ret.raised /\ out = ret.data
    /\ (Len(fits) = 2 /\ fits[1] = fits[2]) => self = fit(fresh, fits[1])

\* C9 witness: fit_transform(D) on the fresh imputer imputed a missing
\* value of D, and fit(D) was then called again (in SpecRefit no transform
\* comes before a fit, so out is what fit_transform returned).
C9_Witness ==
    /\ op = "fit" /\ Len(fits) = 2 /\ fits[1] = fits[2]
    /\ data = fits[1] /\ out # <<>> /\ raised = ""
    /\ \E i \in DOMAIN data : \E col \in NumericColumns(data) :
          data[i][col] = NaN /\ out[i][col] # NaN

\* C10: after any sequence of fit calls, the fitted columns are those with
\* a missing value in some dataset passed to fit; the statistics of a
\* column are those of the last such dataset (one mean per Country of that
\* dataset, and its median); and transform imputes every fitted column
\* from them.
C10_FitOnlyAddsOrOverwrites ==
    /\ DOMAIN means_by_country = EverMissing
    /\ DOMAIN global_medians = EverMissing
    /\ \A col \in EverMissing :
          LET d == LastWithMissing(col)
          IN  /\ DOMAIN means_by_country[col] = {d[i]["Country"] : i \in DOMAIN d}
              /\ \A k \in DOMAIN means_by_country[col] :
                    IsCountryMean(means_by_country[col][k], d, k, col)
              /\ IsMedian(global_medians[col], d, col)
    /\ (op = "transform" /\ raised = "") =>
          \A i \in DOMAIN data : \A col \in EverMissing :
              data[i][col] = NaN =>
                  LET d == LastWithMissing(col)
                      k == data[i]["Country"]
                  IN  IF CountryIn(d, k)
                      THEN IsCountryMean(out[i][col], d, k, col)
                      ELSE IsMedian(out[i][col], d, col)

\* C10 witness: a column with a missing value in the first dataset and none
\* in the second kept the first dataset's statistics, which are not those
\* of the second, and transform imputed the column from them.
C10_Witness ==
    /\ Len(fits) = 2 /\ op = "transform" /\ raised = ""
    /\ \E col \in NumericColumns(fits[1]) :
          /\ HasMissing(fits[1], col) /\ ~HasMissing(fits[2], col)
          /\ ~IsMedian(global_medians[col], fits[2], col)
          /\ \E i \in DOMAIN data : data[i][col] = NaN /\ out[i][col] # NaN

---------------------------------------------------------------------------
(* Specification SpecFeatures: add_features applied to a dataset.          *)

\* rows of a dataset passed to add_features
MaxFeatureRows == 2

FeatureRow(g, p, u, f, t) ==
    [c \in {"Country", "Status"} \cup Operands |->
        CASE c = "Country" -> "A"
          [] c = "Status" -> "0"
          [] c = "GDP" -> g
          [] c = "Population" -> p
          [] c = "under-five deaths" -> u
          [] c = "infant deaths" -> f
          [] c = "Total expenditure" -> t]

FeatureRows ==
    {FeatureRow(g, p, u, f, t) :
        g \in {NaN, Num(0), Num(2)}, p \in {NaN, Num(0), Num(1)},
        u \in {NaN, Num(2)}, f \in {Num(0), Num(4)}, t \in {NaN, Num(1)}}

\* one-row datasets with no GDP column
FeatureDataNoGDP == {<<[c \in DOMAIN r \ {"GDP"} |-> r[c]]>> : r \in FeatureRows}

\* data is a dataset of the full schema, or one with no GDP column
InitFeatures ==
    /\ means_by_country = <<>> /\ global_medians = <<>>
    /\ fits = <<>> /\ out = <<>> /\ raised = "" /\ op = "__init__"
    /\ \/ \E m \in 1..MaxFeatureRows : data \in [1..m -> FeatureRows]
       \/ data \in FeatureDataNoGDP
    /\ NotebookIdle

AddFeatures ==
    /\ op = "__init__"
    /\ LET r == add_features(data)
       IN  out' = r.data /\ raised' = r.raised
    /\ op' = "add_features"
    /\ UNCHANGED <<imputer, fits, data, notebook>>

NextFeatures == AddFeatures

SpecFeatures == InitFeatures /\ [][NextFeatures]_vars

\* v is a / b, and missing when b is zero or a or b is missing
IsRatio(v, a, b) ==
    IF a = NaN \/ b = NaN \/ b = Num(0) THEN v = NaN
    ELSE v[2] > 0 /\ v[1] * b[1] * a[2] = v[2] * a[1] * b[2]

NewColumns ==
    {"GDP_per_capita", "Child_mortality_ratio", "Health_expenditure_per_GDP"}

\* C8: add_features (given the columns it reads) returns the rows of its
\* input with three more columns and every input column unchanged; each new
\* column is the documented ratio, missing exactly when the denominator is
\* zero or an operand is missing, never infinite; and a row's result is the
\* result add_features gives for that row alone.
C8_ThreeRatiosPerRow ==
    (op = "add_features" /\ Operands \subseteq Columns(data)) =>
        /\ raised = ""
        /\ DOMAIN out = DOMAIN data
        /\ \A i \in DOMAIN data :
              LET row == data[i]
                  res == out[i]
              IN  /\ DOMAIN res = DOMAIN row \cup NewColumns
                  /\ Cardinality(DOMAIN res) = Cardinality(DOMAIN row) + 3
                  /\ \A c \in DOMAIN row : res[c] = row[c]
                  /\ IsRatio(res["GDP_per_capita"], row["GDP"], row["Population"])
                  /\ IsRatio(res["Child_mortality_ratio"],
                             row["under-five deaths"], row["infant deaths"])
                  /\ IsRatio(res["Health_expenditure_per_GDP"],
                             row["Total expenditure"], row["GDP"])
                  /\ \A c \in NewColumns : res[c] # Inf
                  /\ res = add_features(<<row>>).data[1]

\* C8 witness: two different rows went through add_features, one with a
\* zero denominator under a non-zero numerator and one with a ratio that is
\* no whole number.
C8_Witness ==
    /\ op = "add_features" /\ raised = "" /\ Len(data) = 2
    /\ data[1] # data[2]
    /\ \E i \in DOMAIN data :
          /\ data[i]["Population"] = Num(0) /\ data[i]["GDP"] = Num(2)
          /\ out[i]["GDP_per_capita"] = NaN
    /\ \E i \in DOMAIN data : out[i]["Child_mortality_ratio"] = <<1, 2>>

---------------------------------------------------------------------------
(* Specification SpecRun: the notebook's run, from the loaded datasets to  *)
(* the predictions.  y is left out: it is split off X before the run and   *)
(* read by the learner alone.  The scaler and the learner are outside the  *)
(* repository: of the scaler the model keeps that StandardScaler leaves a  *)
(* missing value missing and rejects an infinite one; the learner          *)
(* (LightGBM) accepts missing values.                                      *)

\* rows of train_data
MaxTrainRows == 3
\* test_size = 0.2, in percent
TestSizePercent == 20

\* a loaded row of the notebook's datasets
RunRow(k, g, p) ==
    [FeatureRow(g, p, Num(2), Num(4), Num(1)) EXCEPT
        !["Country"] = k, !["Status"] = "Developing"]

TrainRows == {RunRow(k, g, Num(1)) : k \in Countries, g \in {NaN, Num(0), Num(2)}}

\* a test row has a missing GDP, and a missing Population or not
TestRows == {RunRow(k, NaN, p) : k \in Countries, p \in {NaN, Num(1)}}

\* the permutations of 1..n
permutations(n) ==
    {q \in [1..n -> 1..n] : \A i, j \in 1..n : q[i] = q[j] => i = j}

\* the rows of d at the row numbers idx, in the order of idx
take(d, idx) == [i \in DOMAIN idx |-> d[idx[i]]]

InitRun ==
    /\ means_by_country = <<>> /\ global_medians = <<>>
    /\ fits = <<>> /\ data = <<>> /\ out = <<>> /\ raised = "" /\ op = "__init__"
    /\ pc = "Loaded"
    /\ X \in Datasets(TrainRows, MaxTrainRows)
    /\ test_data \in {<<r>> : r \in TestRows}
    /\ split = <<<<>>, <<>>>>
    /\ X_train = <<>> /\ X_val = <<>> /\ X_test = <<>> /\ scaler = ""

\* the run ends in exception e
Abort(e) == pc' = "Aborted" /\ raised' = e

\* train_test_split(X, y, test_size=0.2, random_state=42): n_test is
\* ceil(0.2 n) and the rest is the fit-portion; an empty fit-portion is a
\* ValueError.  The seeded shuffle is one permutation, which one is not
\* modelled: any.
Split ==
    /\ pc = "Loaded"
    /\ LET n == Len(X)
           n_test == (n * TestSizePercent + 99) \div 100
       IN  IF n - n_test = 0
           THEN /\ Abort("ValueError")
                /\ UNCHANGED <<split, X_train, X_val>>
           ELSE /\ \E q \in permutations(n) :
                     split' = <<SubSeq(q, n_test + 1, n), SubSeq(q, 1, n_test)>>
                /\ X_train' = take(X, split'[1])
                /\ X_val' = take(X, split'[2])
                /\ pc' = "Split" /\ UNCHANGED raised
    /\ UNCHANGED <<imputer, fits, data, out, op, X, test_data, X_test, scaler>>

\* mutant of TransformVal: the held-out portion is passed to fit_transform
FitTransformVal ==
    /\ pc = "FitTrain"
    /\ LET r == fit_transform(self, X_val)
       IN  /\ SetSelf(r.self)
           /\ fits' = Append(fits, X_val)
           /\ X_val' = r.ret.data
           /\ pc' = "TransformedVal"
    /\ UNCHANGED <<data, out, raised, op, X, test_data, split, X_train, X_test, scaler>>

\* preprocessor = DataPreprocessor(); X_train = preprocessor.fit_transform(X_train)
FitTransformTrain ==
    /\ pc = "Split"
    /\ LET r == fit_transform(fresh, X_train)
       IN  /\ SetSelf(r.self)
           /\ fits' = Append(fits, X_train)
           /\ IF r.ret.raised # ""
              THEN Abort(r.ret.raised) /\ UNCHANGED X_train
              ELSE X_train' = r.ret.data /\ pc' = "FitTrain" /\ UNCHANGED raised
    /\ UNCHANGED <<data, out, op, X, test_data, split, X_val, X_test, scaler>>

\* X_val = preprocessor.transform(X_val)
TransformVal ==
    /\ pc = "FitTrain"
    /\ LET r == transform(self, X_val)
       IN  IF r.raised # ""
           THEN Abort(r.raised) /\ UNCHANGED X_val
           ELSE X_val' = r.data /\ pc' = "TransformedVal" /\ UNCHANGED raised
    /\ UNCHANGED <<imputer, fits, data, out, op, X, test_data, split, X_train, X_test, scaler>>

\* X_test = preprocessor.transform(test_data)
TransformTest ==
    /\ pc = "TransformedVal"
    /\ LET r == transform(self, test_data)
       IN  IF r.raised # ""
           THEN Abort(r.raised) /\ UNCHANGED X_test
           ELSE X_test' = r.data /\ pc' = "Imputed" /\ UNCHANGED raised
    /\ UNCHANGED <<imputer, fits, data, out, op, X, test_data, split, X_train, X_val, scaler>>

\* X_train = add_features(X_train), and X_val, X_test alike
AddFeaturesAll ==
    /\ pc = "Imputed"
    /\ LET a == add_features(X_train)
           b == add_features(X_val)
           c == add_features(X_test)
       IN  IF a.raised # "" \/ b.raised # "" \/ c.raised # ""
           THEN Abort("KeyError") /\ UNCHANGED <<X_train, X_val, X_test>>
           ELSE /\ X_train' = a.data /\ X_val' = b.data /\ X_test' = c.data
                /\ pc' = "Featurized" /\ UNCHANGED raised
    /\ UNCHANGED <<imputer, fits, data, out, op, X, test_data, split, scaler>>

\* df.drop(col, axis=1)
drop(df, col) == [i \in DOMAIN df |-> [c \in DOMAIN df[i] \ {col} |-> df[i][c]]]

\* X_train = X_train.drop('Country', axis=1), and X_val, X_test alike
DropCountry ==
    /\ pc = "Featurized"
    /\ X_train' = drop(X_train, "Country")
    /\ X_val' = drop(X_val, "Country")
    /\ X_test' = drop(X_test, "Country")
    /\ pc' = "CategoryDropped"
    /\ UNCHANGED <<imputer, fits, data, out, raised, op, X, test_data, split, scaler>>

\* a cell of the scaled matrix: missing where the cell was missing
scaled(col, v) == IF isna(col, v) THEN NaNStr ELSE "float"

\* StandardScaler.transform(df) (and fit_transform): a matrix of floats
scale(df) == [i \in DOMAIN df |-> [c \in DOMAIN df[i] |-> scaled(c, df[i][c])]]

\* df holds an infinite value
HasInf(df) ==
    \E i \in DOMAIN df : \E c \in DOMAIN df[i] \ StrCols : df[i][c] = Inf

\* scaler = StandardScaler(); X_train = scaler.fit_transform(X_train);
\* X_val = scaler.transform(X_val); X_test = scaler.transform(X_test)
Scale ==
    /\ pc = "CategoryDropped"
    /\ IF HasInf(X_train) \/ HasInf(X_val) \/ HasInf(X_test)
       THEN Abort("ValueError") /\ UNCHANGED <<X_train, X_val, X_test, scaler>>
       ELSE /\ scaler' = "fitted"
            /\ X_train' = scale(X_train)
            /\ X_val' = scale(X_val)
            /\ X_test' = scale(X_test)
            /\ pc' = "Scaled" /\ UNCHANGED raised
    /\ UNCHANGED <<imputer, fits, data, out, op, X, test_data, split>>

\* lgb_model.fit(X_train, y_train, eval_set=[(X_val, y_val)])
Train ==
    /\ pc = "Scaled" /\ pc' = "Trained"
    /\ UNCHANGED <<imputer, session, X, test_data, split, X_train, X_val, X_test, scaler>>

\* y_pred_val = lgb_model.predict(X_val); r2 = r2_score(y_val, y_pred_val)
Evaluate ==
    /\ pc = "Trained" /\ pc' = "Evaluated"
    /\ UNCHANGED <<imputer, session, X, test_data, split, X_train, X_val, X_test, scaler>>

\* test_pred = lgb_model.predict(X_test); submission.to_csv(...)
Predict ==
    /\ pc = "Evaluated" /\ pc' = "Predicted"
    /\ UNCHANGED <<imputer, session, X, test_data, split, X_train, X_val, X_test, scaler>>

NextRun ==
    \/ Split \/ FitTransformTrain \/ TransformVal \/ TransformTest
    \/ AddFeaturesAll \/ DropCountry \/ Scale \/ Train \/ Evaluate \/ Predict

SpecRun == InitRun /\ [][NextRun]_vars

---------------------------------------------------------------------------
(* Claims checked under SpecRun. *)

\* the fit-portion as the split drew it
FitPortion == take(X, split[1])

FitDone ==
    pc \in {"FitTrain", "TransformedVal", "Imputed", "Featurized",
            "CategoryDropped", "Scaled", "Trained", "Evaluated", "Predicted"}

\* the imputer's state is the statistics of the fit-portion, written by one fit
StateIsOfFitPortion ==
    /\ fits = <<FitPortion>>
    /\ DOMAIN means_by_country =
          {col \in NumericColumns(FitPortion) : HasMissing(FitPortion, col)}
    /\ DOMAIN global_medians = DOMAIN means_by_country
    /\ \A col \in DOMAIN means_by_country :
          /\ DOMAIN means_by_country[col] =
                {FitPortion[i]["Country"] : i \in DOMAIN FitPortion}
          /\ \A k \in DOMAIN means_by_country[col] :
                IsCountryMean(means_by_country[col][k], FitPortion, k, col)
          /\ IsMedian(global_medians[col], FitPortion, col)

\* before the fit nothing is fitted and no partition is transformed
NothingBeforeFit ==
    /\ fits = <<>> /\ self = fresh
    /\ pc = "Split" => X_train = FitPortion /\ X_val = take(X, split[2])
    /\ X_test = <<>>

\* C1: in the run the imputer's state is written once, by the fit on the
\* fit-portion and before any partition is transformed; no later step
\* changes it; from the fit to Predicted it is the statistics of the
\* fit-portion alone.
C1_FitOnceOnFitPortion ==
    /\ [](pc \in {"Loaded", "Split"} => NothingBeforeFit)
    /\ [](FitDone => StateIsOfFitPortion)
    /\ [][pc # "Split" => UNCHANGED <<imputer, fits>>]_vars

\* C1 witness: the run reached Predicted with a fitted state that holds a
\* defined mean and is not the statistics of the whole training set.
C1_Witness ==
    /\ pc = "Predicted"
    /\ \E col \in DOMAIN means_by_country :
          /\ \E k \in DOMAIN means_by_country[col] : means_by_country[col][k] # NaN
          /\ ~IsMedian(global_medians[col], X, col)

\* a cell of a scaled partition is missing
MissingScaled(d) == \E i \in DOMAIN d : \E c \in DOMAIN d[i] : d[i][c] = NaNStr

\* C6 as claimed: the run never reaches Scaled, Trained or Predicted with a
\* missing value in a partition.
C6_NoMissingValueAtScaled ==
    pc \in {"Scaled", "Trained", "Evaluated", "Predicted"} =>
        ~(MissingScaled(X_train) \/ MissingScaled(X_val) \/ MissingScaled(X_test))

===========================================================================
